---- MODULE Spec2Model ----
(***************************************************************************)
(* Model of docs/features/test-5.py: a client that loads four input files, *)
(* submits one inference job, polls its status on a fixed interval until a *)
(* terminal status or a time ceiling, and decodes and saves the images of  *)
(* the completed job.                                                      *)
(*                                                                         *)
(* Characters are integers: 0..63 are the characters of the standard       *)
(* base64 alphabet (A-Z, a-z, 0-9, +, /) by their sextet value, and the    *)
(* codes above 63 are '=', ',', ':' and one character outside the          *)
(* alphabet.  Bytes are integers 0..255.  A string is a sequence of        *)
(* characters.                                                             *)
(***************************************************************************)
EXTENDS Integers, Sequences, FiniteSets

\* ------------------------------------------------------------ bounds
MaxBytes == 3
MaxStrLen == 5
MaxImages == 2

\* -------------------------------------------------------- characters
PAD == 64
COMMA == 65
COLON == 66
BANG == 67

Alphabet == 0..63

\* the literal 'data:' of data.startswith('data:'): d=29, a=26, t=45
DataPrefix == <<29, 26, 45, 26, COLON>>

\* ------------------------------------------------------------ base64
\* base64.b64encode: three bytes to four sextets, '=' padding at the end
RECURSIVE b64encode(_)
b64encode(b) ==
    IF Len(b) = 0 THEN <<>>
    ELSE IF Len(b) = 1 THEN
        << b[1] \div 4, (b[1] % 4) * 16, PAD, PAD >>
    ELSE IF Len(b) = 2 THEN
        << b[1] \div 4, (b[1] % 4) * 16 + (b[2] \div 16), (b[2] % 16) * 4, PAD >>
    ELSE
        << b[1] \div 4, (b[1] % 4) * 16 + (b[2] \div 16),
           (b[2] % 16) * 4 + (b[3] \div 64), b[3] % 64 >>
        \o b64encode(SubSeq(b, 4, Len(b)))

\* binascii.a2b_base64 as base64.b64decode(s) calls it (validate=False):
\* a character outside the alphabet is skipped, '=' ends the input once a
\* quad holding at least two characters is padded to four, and what is left
\* of an unfinished quad at the end of the input is an error.
RECURSIVE a2b_base64(_, _, _, _, _, _)
a2b_base64(s, i, quad_pos, leftchar, pads, out) ==
    IF i > Len(s) THEN
        IF quad_pos = 0 THEN [kind |-> "bytes", val |-> out]
        ELSE [kind |-> "binascii.Error", val |-> <<>>]
    ELSE IF s[i] = PAD THEN
        IF quad_pos >= 2 /\ quad_pos + pads + 1 >= 4
        THEN [kind |-> "bytes", val |-> out]
        ELSE a2b_base64(s, i + 1, quad_pos, leftchar,
                        IF quad_pos >= 2 THEN pads + 1 ELSE pads, out)
    ELSE IF s[i] \notin Alphabet THEN
        a2b_base64(s, i + 1, quad_pos, leftchar, pads, out)
    ELSE IF quad_pos = 0 THEN
        a2b_base64(s, i + 1, 1, s[i], 0, out)
    ELSE IF quad_pos = 1 THEN
        a2b_base64(s, i + 1, 2, s[i] % 16, 0,
                   Append(out, leftchar * 4 + (s[i] \div 16)))
    ELSE IF quad_pos = 2 THEN
        a2b_base64(s, i + 1, 3, s[i] % 4, 0,
                   Append(out, leftchar * 16 + (s[i] \div 4)))
    ELSE
        a2b_base64(s, i + 1, 0, 0, 0, Append(out, leftchar * 64 + s[i]))

b64decode(s) == a2b_base64(s, 1, 0, 0, 0, <<>>)

\* ---------------------------------------------------- safe_base64_decode
StartsWith(s, p) == Len(s) >= Len(p) /\ SubSeq(s, 1, Len(p)) = p

HasComma(s) == \E k \in 1..Len(s) : s[k] = COMMA

FirstComma(s) == CHOOSE k \in 1..Len(s) : s[k] = COMMA /\ \A j \in 1..(k - 1) : s[j] # COMMA

\* data.split(',', 1)[1]: what follows the first comma
AfterFirstComma(s) == SubSeq(s, FirstComma(s) + 1, Len(s))

Pads(n) == [k \in 1..n |-> PAD]

\* missing_padding = len(data) % 4; data += '=' * (4 - missing_padding)
AddPadding(s) == IF Len(s) % 4 # 0 THEN s \o Pads(4 - (Len(s) % 4)) ELSE s

\* A value handed to safe_base64_decode: [t |-> "str", v |-> <<chars>>] is a
\* string, any other tag is a value without startswith (number, list, null).
Str(s) == [t |-> "str", v |-> s]

\* mutant of decode_try: the 'data:' prefix is not stripped
decode_try_keeps_prefix(data) ==
    IF data.t # "str" THEN [kind |-> "AttributeError", val |-> <<>>]
    ELSE b64decode(AddPadding(data.v))

\* the body of the try block: bytes, or the exception raised
decode_try(data) ==
    IF data.t # "str" THEN [kind |-> "AttributeError", val |-> <<>>]
    ELSE IF StartsWith(data.v, DataPrefix) /\ ~HasComma(data.v)
    THEN [kind |-> "IndexError", val |-> <<>>]
    ELSE b64decode(AddPadding(IF StartsWith(data.v, DataPrefix)
                              THEN AfterFirstComma(data.v) ELSE data.v))

NoBytes == [kind |-> "none", val |-> <<>>]

\* mutant of Caught: except binascii.Error in place of except Exception
Caught_binascii_only(exc) == exc = "binascii.Error"

\* except Exception: every exception the try block raises is an Exception
Caught(exc) == exc \in {"AttributeError", "IndexError", "binascii.Error"}

\* lines 21-38: the bytes, None (NoBytes) when the handler caught, or the
\* exception itself when it escapes
safe_base64_decode(data) ==
    LET r == decode_try(data)
    IN  IF r.kind = "bytes" THEN r
        ELSE IF Caught(r.kind) THEN NoBytes
        ELSE r

\* ------------------------------------------------------- program constants
max_wait_time == 300
SleepInProgress == 5
SleepUnknown == 5
SleepErrorResponse == 10
MinValueLen == 100
MinImageBytes == 1000

\* ------------------------------------------------------------ the inputs
InputFiles == <<"input.json", "input-1.png", "input-2.png", "mask.png">>

JobIds == {"job-a", "job-b"}

ErrorDetails == {"e1", "e2"}

DefaultError == "unknown error"

Absent == [t |-> "absent", v |-> <<>>]
Num == [t |-> "num", v |-> <<>>]

NoPath == [t |-> "absent", stem |-> "", ext |-> ""]
PathOf(stem, ext) == [t |-> "str", stem |-> stem, ext |-> ext]

Good1 == b64encode(<<1, 2, 3>>)
GoodUrl == DataPrefix \o <<8, 12, 6>> \o <<COMMA>> \o b64encode(<<255>>)
BadStr == <<0>>

NonDict == [isDict |-> FALSE, data |-> Absent, path |-> NoPath]
Item(data, path) == [isDict |-> TRUE, data |-> data, path |-> path]

\* the entries an "images" list of the service's response is drawn from
Entries ==
    { NonDict,
      Item(Str(<<>>), NoPath),
      Item(Num, NoPath),
      Item(Str(BadStr), NoPath),
      Item(Str(Good1), NoPath),
      Item(Str(GoodUrl), PathOf("img", ".jpg")) }

RECURSIVE SeqsUpTo(_, _)
SeqsUpTo(S, n) ==
    IF n = 0 THEN {<<>>}
    ELSE SeqsUpTo(S, n - 1) \cup
         {Append(s, x) : s \in {t \in SeqsUpTo(S, n - 1) : Len(t) = n - 1}, x \in S}

\* a value of the fallback scan: a string by its length and what it decodes
\* to (the number of bytes, or -1 for no bytes), or a value that is no string
FallbackValues ==
    { [isStr |-> FALSE, len |-> 0, declen |-> -1],
      [isStr |-> TRUE, len |-> 100, declen |-> 75],
      [isStr |-> TRUE, len |-> 101, declen |-> -1],
      [isStr |-> TRUE, len |-> 1336, declen |-> 1000],
      [isStr |-> TRUE, len |-> 1340, declen |-> 1005] }

NoOutput == [shape |-> "none", images |-> <<>>, items |-> <<>>]
ImagesOutput(l) == [shape |-> "images", images |-> l, items |-> <<>>]
ImagesNotAList == [shape |-> "images_null", images |-> <<>>, items |-> <<>>]
FallbackOutput(v) == [shape |-> "fallback", images |-> <<>>, items |-> v]

Outputs ==
    {NoOutput, ImagesNotAList}
    \cup {ImagesOutput(l) : l \in SeqsUpTo(Entries, MaxImages)}
    \cup {FallbackOutput(<<v>>) : v \in FallbackValues}

\* -------------------------------------------------------------- the state
VARIABLES
    pc,            \* where the script is
    outcome,       \* what the run reported when it ended
    loaded,        \* the input files read so far
    failed_input,  \* the input file whose load failed, or ""
    nSubmit,       \* requests.post calls made
    submit_resp,   \* the response of the submit call
    job_id,        \* run_data.get("id")
    polled,        \* the job identifiers status calls were made for
    calls,         \* requests.get calls made
    wait_time,     \* the loop's wait_time
    slept,         \* total time spent in time.sleep
    nSleeps,       \* time.sleep calls made
    inprog_run,    \* k while the responses so far were k in-progress ones, else -1
    terminal_seen, \* a poll has returned COMPLETED or FAILED
    status_data,   \* the response of the last status call
    error_msg,     \* the error detail printed for a FAILED job
    images_seen,   \* the entries of the images list the loop has reached
    files,         \* the output files written
    skipped,       \* the entries reported as without data or undecodable
    d_pc,          \* safe_base64_decode check: position
    d_bytes,       \* the bytes encoded
    d_text,        \* the string handed to safe_base64_decode
    d_result       \* what safe_base64_decode returned

runVars == <<pc, outcome, loaded, failed_input, nSubmit, submit_resp, job_id,
             polled, calls, wait_time, slept, nSleeps, inprog_run,
             terminal_seen, status_data, error_msg, images_seen, files, skipped>>

pollVars == <<calls, wait_time, slept, nSleeps, inprog_run, terminal_seen,
              status_data, error_msg, polled>>

collectVars == <<images_seen, files, skipped>>

decVars == <<d_pc, d_bytes, d_text, d_result>>

vars == <<pc, outcome, loaded, failed_input, nSubmit, submit_resp, job_id,
          polled, calls, wait_time, slept, nSleeps, inprog_run,
          terminal_seen, status_data, error_msg, images_seen, files, skipped,
          d_pc, d_bytes, d_text, d_result>>

NoResponse == [kind |-> "none", status |-> "", error |-> "", output |-> NoOutput]

RunInit ==
    /\ pc = "config"
    /\ outcome = "none"
    /\ loaded = {}
    /\ failed_input = ""
    /\ nSubmit = 0
    /\ submit_resp = "none"
    /\ job_id = ""
    /\ polled = {}
    /\ calls = 0
    /\ wait_time = 0
    /\ slept = 0
    /\ nSleeps = 0
    /\ inprog_run = 0
    /\ terminal_seen = FALSE
    /\ status_data = NoResponse
    /\ error_msg = ""
    /\ images_seen = {}
    /\ files = {}
    /\ skipped = {}

DecIdle ==
    /\ d_pc = "idle"
    /\ d_bytes = <<>>
    /\ d_text = Str(<<>>)
    /\ d_result = NoBytes

Init == RunInit /\ DecIdle

\* the run ends: exit(), or the end of the script after a handler printed
End(how) ==
    /\ pc' = "done"
    /\ outcome' = how

\* --------------------------------------------------------- configuration
\* lines 13-15: both values are needed, else exit(1) before any I/O
CheckConfig ==
    /\ pc = "config"
    /\ \E api_key \in BOOLEAN, endpoint_id \in BOOLEAN :
        IF api_key /\ endpoint_id
        THEN pc' = "mkdir" /\ outcome' = outcome
        ELSE End("config_missing")
    /\ UNCHANGED <<loaded, failed_input, nSubmit, submit_resp, job_id>>
    /\ UNCHANGED <<pollVars, collectVars, decVars>>

\* ------------------------------------------------------------ load inputs
\* the except clause that takes an exception raised inside the try block
Handler(exc) ==
    IF exc = "FileNotFoundError" THEN "file_not_found"
    ELSE IF exc = "JSONDecodeError" THEN "json_error"
    ELSE "unexpected"

\* mutant of LoadFails: the exception is swallowed and the script goes on
LoadFails_swallowed(f, exc) ==
    /\ pc' = "submit"
    /\ outcome' = outcome
    /\ failed_input' = f
    /\ loaded' = loaded

\* a failed read of input file f: the handler prints and the script ends
LoadFails(f, exc) ==
    /\ End(Handler(exc))
    /\ failed_input' = f
    /\ loaded' = loaded

\* line 43: os.makedirs("results", exist_ok=True)
MakeResultsDir ==
    /\ pc = "mkdir"
    /\ \E r \in {"ok", "OSError"} :
        IF r = "ok"
        THEN pc' = "load_workflow" /\ outcome' = outcome
        ELSE End(Handler(r))
    /\ UNCHANGED <<loaded, failed_input, nSubmit, submit_resp, job_id>>
    /\ UNCHANGED <<pollVars, collectVars, decVars>>

\* lines 47-48: open('input.json') and json.load
LoadWorkflow ==
    /\ pc = "load_workflow"
    /\ \E r \in {"ok", "FileNotFoundError", "PermissionError", "JSONDecodeError"} :
        IF r = "ok"
        THEN /\ loaded' = loaded \cup {InputFiles[1]}
             /\ pc' = "load_image_2"
             /\ UNCHANGED <<outcome, failed_input>>
        ELSE LoadFails(InputFiles[1], r)
    /\ UNCHANGED <<nSubmit, submit_resp, job_id>>
    /\ UNCHANGED <<pollVars, collectVars, decVars>>

NextLoad(n) == IF n = 4 THEN "submit" ELSE IF n = 3 THEN "load_image_4" ELSE "load_image_3"

\* lines 53-62: open, read and b64encode of the n-th input file
LoadImage(n) ==
    /\ pc = (IF n = 2 THEN "load_image_2" ELSE IF n = 3 THEN "load_image_3" ELSE "load_image_4")
    /\ \E r \in {"ok", "FileNotFoundError", "PermissionError"} :
        IF r = "ok"
        THEN /\ loaded' = loaded \cup {InputFiles[n]}
             /\ pc' = NextLoad(n)
             /\ UNCHANGED <<outcome, failed_input>>
        ELSE LoadFails(InputFiles[n], r)
    /\ UNCHANGED <<nSubmit, submit_resp, job_id>>
    /\ UNCHANGED <<pollVars, collectVars, decVars>>

\* ------------------------------------------------------------------ submit
\* what the submit call can give: an exception of requests.post, a non-200
\* response, a 200 whose body is no JSON, a 200 whose JSON is no object, a
\* 200 without an id, a 200 with an id
SubmitResponses == {"raise", "non200", "bad_json", "not_object", "no_id"} \cup JobIds

\* what response.json() raises on a body that is no JSON: a JSONDecodeError
\* of json, or with an older requests a plain ValueError
BadJsonRaises == {"JSONDecodeError", "ValueError"}

\* mutant of AfterJobId: the exit(1) is missing
AfterJobId_noexit(id) == pc' = "poll" /\ outcome' = outcome

\* line 101-104: if not job_id: print, exit(1)
AfterJobId(id) == IF id = "" THEN End("no_job_id") ELSE pc' = "poll" /\ outcome' = outcome

\* lines 93-113 and 247-249
Submit ==
    /\ pc = "submit"
    /\ nSubmit' = nSubmit + 1
    /\ \E r \in SubmitResponses :
        /\ submit_resp' = r
        /\ IF r = "raise" THEN End(Handler("ConnectionError")) /\ job_id' = job_id
           ELSE IF r = "bad_json"
           THEN (\E exc \in BadJsonRaises : End(Handler(exc))) /\ job_id' = job_id
           ELSE IF r = "not_object" THEN End(Handler("AttributeError")) /\ job_id' = job_id
           ELSE IF r = "non200" THEN End("submit_failed") /\ job_id' = job_id
           ELSE /\ job_id' = (IF r = "no_id" THEN "" ELSE r)
                /\ AfterJobId(job_id')
    /\ UNCHANGED <<loaded, failed_input>>
    /\ UNCHANGED <<pollVars, collectVars, decVars>>

\* ------------------------------------------------- collect and persist
FileOf(stem, stem_no, idx, ext, size) ==
    [stem |-> stem, stem_no |-> stem_no, idx |-> idx, ext |-> ext, size |-> size]

\* lines 159-169: results/{timestamp}_{name_part}_{i+1}{ext_part}, the path
\* defaulting to output_{i}.png and the extension to .png
OutputFile(path, i, bytes) ==
    IF path.t = "absent"
    THEN FileOf("output_", i, i + 1, ".png", Len(bytes))
    ELSE FileOf(path.stem, -1, i + 1, IF path.ext = "" THEN ".png" ELSE path.ext,
                Len(bytes))

\* bool(image_data_b64)
Truthy(data) == data.t = "num" \/ (data.t = "str" /\ data.v # <<>>)

\* lines 143-179, one entry of the list (i counts from 0): the entry is
\* saved, reported ("nodata", "decode_failed"), passed over without a word
\* ("silent"), or an exception leaves the loop ("raise")
ProcessItem(item, i) ==
    LET image_data == safe_base64_decode(item.data)
    IN  IF ~item.isDict THEN [res |-> "silent", file |-> {}]
        ELSE IF ~Truthy(item.data) THEN [res |-> "nodata", file |-> {}]
        ELSE IF item.data.t # "str" THEN [res |-> "raise", file |-> {}]
        ELSE IF image_data.kind \notin {"bytes", "none"}
        THEN [res |-> "raise", file |-> {}]
        ELSE IF image_data.val = <<>> THEN [res |-> "decode_failed", file |-> {}]
        ELSE IF item.path.t = "null" THEN [res |-> "raise", file |-> {}]
        ELSE [res |-> "saved", file |-> {OutputFile(item.path, i, image_data.val)}]

\* lines 142-179: for i, image_item in enumerate(images_list)
RECURSIVE CollectImages(_, _, _)
CollectImages(list, i, acc) ==
    IF i >= Len(list) THEN acc
    ELSE LET p == ProcessItem(list[i + 1], i)
         IN  IF p.res = "raise"
             THEN [acc EXCEPT !.seen = @ \cup {i + 1}, !.raised = TRUE]
             ELSE CollectImages(list, i + 1,
                     [acc EXCEPT !.seen = @ \cup {i + 1},
                                 !.files = @ \cup p.file,
                                 !.skipped = IF p.res \in {"nodata", "decode_failed"}
                                             THEN @ \cup {i + 1} ELSE @])

NothingCollected == [seen |-> {}, files |-> {}, skipped |-> {}, raised |-> FALSE]

\* lines 186-201: the scan of an output without an "images" key
RECURSIVE CollectFallback(_, _, _)
CollectFallback(items, k, acc) ==
    IF k > Len(items) THEN acc
    ELSE CollectFallback(items, k + 1,
            IF /\ items[k].isStr
               /\ items[k].len > MinValueLen
               /\ items[k].declen > 0
               /\ items[k].declen > MinImageBytes
            THEN [acc EXCEPT !.files = @ \cup
                     {FileOf("key", k, 0, ".png", items[k].declen)}]
            ELSE acc)

\* lines 129-218: what the COMPLETED branch does with the output
Collect(output) ==
    IF output.shape = "none" THEN NothingCollected
    ELSE IF output.shape = "images_null"
    THEN [NothingCollected EXCEPT !.raised = TRUE]
    ELSE IF output.shape = "images"
    THEN CollectImages(output.images, 0, NothingCollected)
    ELSE CollectFallback(output.items, 1, NothingCollected)

\* Collect, output by output
Collected == [o \in Outputs |-> Collect(o)]

\* -------------------------------------------------------------- poll loop
\* mutant of LoopCondition: <= for <
LoopCondition_le == wait_time <= max_wait_time

\* line 115: while wait_time < max_wait_time
LoopCondition == wait_time < max_wait_time

\* what a status call can give
Response(kind, status, error, output) ==
    [kind |-> kind, status |-> status, error |-> error, output |-> output]

InProgressResponses == {Response("ok", st, "", NoOutput) : st \in {"IN_QUEUE", "IN_PROGRESS"}}

UnknownResponses == {Response("ok", st, "", NoOutput) : st \in {"CANCELLED", "absent"}}

ErrorResponses == {Response("error", "", "", NoOutput)}

\* a call that raises, with the exception: requests.get fails, the body is
\* no JSON, the JSON is no object
RaisingResponses ==
    {Response("raise", "", exc, NoOutput) :
        exc \in {"ConnectionError", "AttributeError"} \cup BadJsonRaises}

FailedResponses == {Response("ok", "FAILED", e, NoOutput) : e \in ErrorDetails \cup {"absent"}}

CompletedResponses == {Response("ok", "COMPLETED", "", out) : out \in Outputs}

\* line 116: requests.get(status_url, headers=headers), inside the loop
StatusCall(responses) ==
    /\ pc = "poll"
    /\ LoopCondition
    /\ calls' = calls + 1
    /\ polled' = polled \cup {job_id}
    /\ status_data' \in responses

\* time.sleep(d); wait_time += d
SleepAndCount(d) ==
    /\ slept' = slept + d
    /\ nSleeps' = nSleeps + 1
    /\ wait_time' = wait_time + d

\* mutant of NoSleep: a terminal status sleeps like an in-progress one
NoSleep_sleeps == SleepAndCount(SleepInProgress)

NoSleep == UNCHANGED <<slept, nSleeps, wait_time>>

StaysInLoop == UNCHANGED <<pc, outcome>>

runFixed == <<loaded, failed_input, nSubmit, submit_resp, job_id>>

\* lines 228-231
PollInProgress ==
    /\ StatusCall(InProgressResponses)
    /\ SleepAndCount(SleepInProgress)
    /\ StaysInLoop
    /\ inprog_run' = (IF inprog_run >= 0 THEN inprog_run + 1 ELSE -1)
    /\ UNCHANGED <<terminal_seen, error_msg>>
    /\ UNCHANGED <<runFixed, collectVars, decVars>>

\* mutant of PollUnknown: the sleep is made but wait_time is not advanced
PollUnknown_nowait ==
    /\ StatusCall(UnknownResponses)
    /\ slept' = slept + SleepUnknown
    /\ nSleeps' = nSleeps + 1
    /\ wait_time' = wait_time
    /\ StaysInLoop
    /\ inprog_run' = -1
    /\ UNCHANGED <<terminal_seen, error_msg>>
    /\ UNCHANGED <<runFixed, collectVars, decVars>>

\* lines 233-236: any other status, or none
PollUnknown ==
    /\ StatusCall(UnknownResponses)
    /\ SleepAndCount(SleepUnknown)
    /\ StaysInLoop
    /\ inprog_run' = -1
    /\ UNCHANGED <<terminal_seen, error_msg>>
    /\ UNCHANGED <<runFixed, collectVars, decVars>>

\* mutant of PollErrorResponse: an error response ends the run
PollErrorResponse_fatal ==
    /\ StatusCall(ErrorResponses)
    /\ NoSleep
    /\ End("unexpected")
    /\ inprog_run' = -1
    /\ UNCHANGED <<terminal_seen, error_msg>>
    /\ UNCHANGED <<runFixed, collectVars, decVars>>

\* lines 238-242: a response whose status code is not 200
PollErrorResponse ==
    /\ StatusCall(ErrorResponses)
    /\ SleepAndCount(SleepErrorResponse)
    /\ StaysInLoop
    /\ inprog_run' = -1
    /\ UNCHANGED <<terminal_seen, error_msg>>
    /\ UNCHANGED <<runFixed, collectVars, decVars>>

\* lines 116-120 raising: the exception leaves the loop for the handlers of
\* lines 251-258
PollRaises ==
    /\ StatusCall(RaisingResponses)
    /\ NoSleep
    /\ End(Handler(status_data'.error))
    /\ inprog_run' = -1
    /\ UNCHANGED <<terminal_seen, error_msg>>
    /\ UNCHANGED <<runFixed, collectVars, decVars>>

\* mutant of ErrorDetail: the carried detail is dropped
ErrorDetail_default(resp) == DefaultError

\* line 223: status_data.get('error', default)
ErrorDetail(resp) == IF resp.error = "absent" THEN DefaultError ELSE resp.error

\* lines 222-226
PollFailed ==
    /\ StatusCall(FailedResponses)
    /\ NoSleep
    /\ error_msg' = ErrorDetail(status_data')
    /\ terminal_seen' = TRUE
    /\ End("failed")
    /\ UNCHANGED inprog_run
    /\ UNCHANGED <<runFixed, collectVars, decVars>>

\* lines 124-220
PollCompleted ==
    /\ StatusCall(CompletedResponses)
    /\ NoSleep
    /\ terminal_seen' = TRUE
    /\ LET c == Collected[status_data'.output]
       IN  /\ images_seen' = c.seen
           /\ files' = files \cup c.files
           /\ skipped' = c.skipped
           /\ IF c.raised THEN End(Handler("TypeError")) ELSE End("collected")
    /\ UNCHANGED <<inprog_run, error_msg>>
    /\ UNCHANGED <<runFixed, decVars>>

\* lines 115 and 244-245: the loop condition fails, the else clause reports
PollTimeout ==
    /\ pc = "poll"
    /\ ~LoopCondition
    /\ End("timeout")
    /\ UNCHANGED <<runFixed, pollVars, collectVars, decVars>>

RunNext ==
    \/ CheckConfig
    \/ MakeResultsDir
    \/ LoadWorkflow
    \/ \E n \in 2..4 : LoadImage(n)
    \/ Submit
    \/ PollInProgress
    \/ PollUnknown
    \/ PollErrorResponse
    \/ PollRaises
    \/ PollFailed
    \/ PollCompleted
    \/ PollTimeout

Next == RunNext

Spec == Init /\ [][Next]_vars

\* the script is sequential: as long as its calls return, it takes its next step
FairSpec == Spec /\ WF_vars(Next)

\* ------------------------------------------ safe_base64_decode on its own
SampleBytes == {0, 1, 15, 16, 63, 64, 128, 255}

ByteSeqs == SeqsUpTo(SampleBytes, MaxBytes)

\* what stands between 'data:' and the comma of a data URL
MediaTypes == { <<>>, <<8, 12, 6>>, <<8, 63, 15, BANG, 1>> }

RawChars == {0, 29, 63, PAD, COMMA, BANG}

RawStrings ==
    LET S == SeqsUpTo(RawChars, MaxStrLen)
    IN  S \cup {DataPrefix \o t : t \in {u \in S : Len(u) < MaxStrLen}}

DecInit ==
    /\ RunInit
    /\ d_pc = "input"
    /\ d_bytes = <<>>
    /\ d_text = Str(<<>>)
    /\ d_result = NoBytes

\* lines 55, 58, 62: base64.b64encode(bytes).decode('utf-8')
EncodeBare ==
    /\ d_pc = "input"
    /\ \E b \in ByteSeqs :
        /\ d_bytes' = b
        /\ d_text' = Str(b64encode(b))
    /\ d_pc' = "bare"
    /\ UNCHANGED <<d_result, runVars>>

\* the same encoding behind a data-URL prefix
EncodePrefixed ==
    /\ d_pc = "input"
    /\ \E b \in ByteSeqs, m \in MediaTypes :
        /\ d_bytes' = b
        /\ d_text' = Str(DataPrefix \o m \o <<COMMA>> \o b64encode(b))
    /\ d_pc' = "prefixed"
    /\ UNCHANGED <<d_result, runVars>>

\* any string, or a value that is no string
RawInput ==
    /\ d_pc = "input"
    /\ \E x \in {Str(s) : s \in RawStrings} \cup {Num} : d_text' = x
    /\ d_pc' = "raw"
    /\ UNCHANGED <<d_bytes, d_result, runVars>>

DoneOf(p) == IF p = "bare" THEN "bare_done" ELSE IF p = "prefixed" THEN "prefixed_done" ELSE "raw_done"

\* the call safe_base64_decode(d_text)
CallDecode ==
    /\ d_pc \in {"bare", "prefixed", "raw"}
    /\ d_result' = safe_base64_decode(d_text)
    /\ d_pc' = DoneOf(d_pc)
    /\ UNCHANGED <<d_bytes, d_text, runVars>>

DecNext == EncodeBare \/ EncodePrefixed \/ RawInput \/ CallDecode

DecSpec == DecInit /\ [][DecNext]_vars

\* ================================================================ claims
AllInputs == {InputFiles[n] : n \in 1..4}

\* C1: whenever a status poll returns FAILED, the run ends reporting the
\* error detail that response carries (the default text when it carries
\* none), no status call follows, and no output file exists, before or after.
C1_FailedPoll ==
    /\ [](status_data.status = "FAILED" =>
            /\ pc = "done"
            /\ outcome = "failed"
            /\ status_data.error \in ErrorDetails => error_msg = status_data.error
            /\ status_data.error = "absent" => error_msg = DefaultError
            /\ files = {})
    /\ [][status_data.status = "FAILED" =>
            calls' = calls /\ files' = files /\ error_msg' = error_msg]_vars

C1_Witness ==
    /\ outcome = "failed"
    /\ error_msg = "e2"
    /\ calls = 3
    /\ wait_time = 15

\* C2 as stated: a finished run has reported a timeout exactly when the
\* waited time has exceeded (is above) the ceiling of 300 and no poll has
\* returned COMPLETED or FAILED.
C2_Original ==
    pc = "done" =>
        (outcome = "timeout" <=> (wait_time > 300 /\ ~terminal_seen))

\* C2 amended: a finished run has reported a timeout exactly when the waited
\* time has reached or exceeded the ceiling of 300 and no poll has returned
\* COMPLETED or FAILED; after the report no status call is made, and no
\* output file is written in such a run.
C2_Timeout ==
    /\ [](pc = "done" =>
            (outcome = "timeout" <=> (wait_time >= 300 /\ ~terminal_seen)))
    /\ [](pc = "poll" /\ wait_time >= 300 => ENABLED PollTimeout /\ ~ENABLED PollErrorResponse)
    /\ [](outcome = "timeout" => files = {} /\ images_seen = {})
    /\ [][outcome = "timeout" => calls' = calls /\ files' = files]_vars

C2_Witness ==
    /\ outcome = "timeout"
    /\ wait_time = 300
    /\ calls = 60

\* C3: when the responses are k in-progress ones followed by COMPLETED
\* (5*k below the ceiling), COMPLETED is seen at the (k+1)-th status call
\* after exactly k sleeps of 5 units, the waited time being 5*k, no sleep
\* follows COMPLETED and no status call is made after it.
C3_InProgressThenCompleted ==
    /\ [](inprog_run >= 0 /\ pc = "poll" =>
            /\ calls = inprog_run
            /\ nSleeps = inprog_run
            /\ slept = 5 * inprog_run
            /\ wait_time = 5 * inprog_run)
    /\ [](inprog_run >= 0 /\ status_data.status = "COMPLETED" =>
            /\ calls = inprog_run + 1
            /\ nSleeps = inprog_run
            /\ slept = 5 * inprog_run
            /\ wait_time = 5 * inprog_run
            /\ 5 * inprog_run < 300)
    /\ [](inprog_run >= 0 /\ 5 * inprog_run < 300 /\ pc = "poll" => ENABLED PollCompleted)
    /\ [][status_data.status = "COMPLETED" =>
            calls' = calls /\ slept' = slept /\ nSleeps' = nSleeps]_vars

C3_Witness ==
    /\ status_data.status = "COMPLETED"
    /\ inprog_run = 59
    /\ calls = 60
    /\ wait_time = 295

\* C4 as stated: an error on a status call, be it an error response or a
\* failure of the transport that makes the call raise, does not end the run:
\* 10 units are waited and counted and the loop goes on.
C4_Original ==
    [][calls' = calls + 1 /\ status_data'.kind \in {"error", "raise"} =>
            /\ pc' = "poll"
            /\ outcome' = "none"
            /\ wait_time' = wait_time + 10]_vars

\* C4 amended: a status call answered by an error response (a status code
\* other than 200) does not end the run: 10 units are waited and counted, and
\* the next status call is made unless the ceiling is reached, so only the
\* ceiling bounds these retries; a status call that raises (the transport
\* fails, the body is no JSON object) ends the run in the outer handler.
C4_ErrorResponseRetried ==
    /\ [][calls' = calls + 1 /\ status_data'.kind = "error" =>
            /\ pc' = "poll"
            /\ outcome' = "none"
            /\ wait_time' = wait_time + 10
            /\ slept' = slept + 10]_vars
    /\ [](pc = "poll" /\ status_data.kind = "error" /\ wait_time < 300 =>
            ENABLED PollErrorResponse)
    /\ [][calls' = calls + 1 /\ status_data'.kind = "raise" =>
            /\ pc' = "done"
            /\ outcome' \in {"unexpected", "json_error"}
            /\ wait_time' = wait_time
            /\ slept' = slept]_vars

C4_Witness ==
    /\ pc = "poll"
    /\ status_data.kind = "error"
    /\ calls = 30
    /\ wait_time = 300

\* the entries C5 calls well-formed: a record whose data is a non-empty
\* string that decodes to bytes
WellFormed(e) ==
    /\ e.isDict
    /\ e.data.t = "str"
    /\ e.data.v # <<>>
    /\ decode_try(e.data).kind = "bytes"

\* C5: after COMPLETED with an images list of N entries, every entry was
\* reached, exactly the well-formed ones gave one file each, every other one
\* was reported, and files + reported = N.
C5_EveryEntryAccounted ==
    status_data.status = "COMPLETED" /\ status_data.output.shape = "images" =>
        LET l == status_data.output.images
            good == {i \in 1..Len(l) : WellFormed(l[i])}
        IN  /\ images_seen = 1..Len(l)
            /\ {f.idx : f \in files} = good
            /\ Cardinality(files) = Cardinality(good)
            /\ skipped = (1..Len(l)) \ good
            /\ Cardinality(files) + Cardinality(skipped) = Len(l)

\* C6: decoding the standard encoding of any byte sequence, bare or behind a
\* 'data:...,' prefix, gives back exactly the bytes.
C6_RoundTrip ==
    d_pc \in {"bare_done", "prefixed_done"} =>
        d_result = [kind |-> "bytes", val |-> d_bytes]

C6_Witness ==
    /\ d_pc = "prefixed_done"
    /\ d_bytes = <<255, 0>>
    /\ d_text = Str(DataPrefix \o <<8, 63, 15, BANG, 1>> \o <<COMMA, 63, 48, 0, PAD>>)
    /\ d_result.val = <<255, 0>>

HasInvalidChar(s) == \E k \in 1..Len(s) : s[k] \notin (Alphabet \cup {PAD})

Discard(s) == SelectSeq(s, LAMBDA c : c \in Alphabet \cup {PAD})

C8_SubmitOnce ==
    /\ nSubmit <= 1
    /\ (pc \in {"poll"} \/ (pc = "done" /\ loaded = AllInputs)) => nSubmit = 1
    /\ submit_resp = "non200" => pc = "done" /\ outcome = "submit_failed" /\ calls = 0
    /\ submit_resp = "no_id" => pc = "done" /\ outcome = "no_job_id" /\ calls = 0
    /\ submit_resp \in {"raise", "bad_json", "not_object"} => pc = "done" /\ calls = 0
    /\ calls > 0 =>
        /\ submit_resp \in JobIds
        /\ job_id = submit_resp
        /\ polled = {job_id}
    /\ calls = 0 => polled = {}

C8_Witness ==
    /\ calls = 2
    /\ polled = {"job-b"}
    /\ nSubmit = 1

\* C9: a run in which an input could not be loaded ends there, having made
\* no submit call and no status call and written no file; a submit call is
\* made only with all four inputs loaded.
C9_LoadBeforeNetwork ==
    /\ (nSubmit > 0 \/ calls > 0 \/ pc \in {"submit", "poll"}) => loaded = AllInputs
    /\ failed_input # "" =>
        /\ pc = "done"
        /\ outcome \in {"file_not_found", "json_error", "unexpected"}
        /\ failed_input \notin loaded
        /\ nSubmit = 0
        /\ calls = 0
        /\ files = {}
    /\ (pc = "done" /\ loaded # AllInputs) => nSubmit = 0 /\ calls = 0 /\ files = {}

C9_Witness ==
    /\ failed_input = "mask.png"
    /\ outcome = "file_not_found"
    /\ loaded = AllInputs \ {"mask.png"}
    /\ pc = "done"

\* C10: a poll answered by an in-progress, unrecognized or absent status or
\* by an error response keeps the run in the loop and adds 5 or 10 to the
\* waited time; the waited time never exceeds 305, at most 60 status calls
\* are made, and the run always ends, a run that polled ending with its
\* outputs collected, a failure reported (the job's FAILED, or the outer
\* handler's report of an exception) or the timeout reported.
C10_PollingBounded ==
    /\ [](wait_time <= 305 /\ calls <= 60)
    /\ [][(/\ calls' = calls + 1
           /\ \/ status_data'.kind = "error"
              \/ status_data'.kind = "ok" /\ status_data'.status \notin {"COMPLETED", "FAILED"})
          => /\ pc' = "poll"
             /\ outcome' = "none"
             /\ wait_time' - wait_time \in {5, 10}]_vars
    /\ [](pc = "done" /\ calls > 0 =>
            outcome \in {"collected", "failed", "timeout", "unexpected", "json_error"})
    /\ <>(pc = "done")

C10_Witness ==
    /\ calls = 60
    /\ wait_time = 305
    /\ pc = "poll"

====
